---- MODULE Spec2Model ----
\* A model of the two verification scripts of macmahon-prime-detectors:
\*   verify_binomial_detector.py  (cubic detector,   M_1..M_3)
\*   verify_quartic_detector.py   (quartic detector, M_1..M_4)
\* The memoized recursion rec() is modelled one call / loop iteration / return
\* at a time, with its call stack and its lru_cache made explicit.
EXTENDS Integers, Sequences, FiniteSets, TLC

VARIABLES
    script,     \* "cubic" | "quartic": which of the two scripts runs
    n_max,      \* the argument n_max / N_max of the run
    pc,         \* "start" | "precompute" | "verify" | "done" (runs), "eval" | "evaluated" (unit)
    n,          \* the loop variable n of the precompute loop, then of the verification loop
    stack,      \* the call stack of rec: one frame per active call, innermost last
    cache,      \* the lru_cache of rec: (remaining, min_part, distinct_used) -> tuple(V)
    Ms,         \* the table Ms[n][k] being built
    failures,   \* the failures list of the verification loop
    lastCall,   \* history: arguments and nesting depth of the latest call of rec
    misses,     \* history: number of executions of the body of rec (lru_cache misses)
    hits,       \* history: number of calls answered from the cache (lru_cache hits)
    started,    \* history: the keys whose body has been entered
    lastRet,    \* history: the tuple the latest finished call of rec returned
    evaluated,  \* history: the (n, is_prime, val) triples the verification loop has seen
    arg_n,      \* detector unit: the argument n
    arg_Ms,     \* detector unit: the argument Ms_for_n (a dict, keys may be absent)
    result      \* detector unit: the value returned

vars == <<script, n_max, pc, n, stack, cache, Ms, failures, lastCall, misses, hits,
          started, lastRet, evaluated, arg_n, arg_Ms, result>>

engineVars == <<stack, cache, Ms, lastCall, misses, hits, started, lastRet>>
unitVars == <<arg_n, arg_Ms, result>>

\* ---------------------------------------------------------------- bounds
\* N_MAX of the cubic run and of the quartic run (the scripts set 1000).
NMaxCubic == 10
NMaxQuartic == 18
\* The largest N_MAX of the runs whose table is computed in one step.
NMaxPipe == 30
\* The largest N_MAX of the runs of the verification loop alone.
NMaxDriver == 5
\* The detector unit: n in 0..MaxArgN, each M_k in 0..MaxArgM or absent.
MaxArgN == 5
MaxArgM == 2

\* ---------------------------------------------------------------- engine
\* The number of distinct part sizes the engine of a script tracks.
KOf(s) == IF s = "cubic" THEN 3 ELSE 4

K == KOf(script)

\* V = [0, 0, 0, 0] / [0, 0, 0, 0, 0]
ZeroV == [k \in 0..K |-> 0]

NewFrame(remaining, min_part, distinct_used) ==
    [remaining |-> remaining, min_part |-> min_part, distinct_used |-> distinct_used,
     i |-> min_part, m |-> 1, V |-> ZeroV]

Key(f) == <<f.remaining, f.min_part, f.distinct_used>>

Top == stack[Len(stack)]

\* BaseV with the count off by one: the completed partition is filed under
\* distinct_used + 1.
BaseV_OffByOne(distinct_used) ==
    [ZeroV EXCEPT ![IF distinct_used < K THEN distinct_used + 1 ELSE K] = 1]

\* The base case: remaining == 0.
BaseV(distinct_used) ==
    IF 1 <= distinct_used /\ distinct_used <= K
    THEN [ZeroV EXCEPT ![distinct_used] = 1]
    ELSE ZeroV

\* Accumulate without the multiplicity: every child counts once.
Accumulate_NoMultiplicity(V, m, child) ==
    [k \in 0..K |-> IF k >= 1 /\ child[k] # 0 THEN V[k] + child[k] ELSE V[k]]

\* Accumulate with the m = 1 branch only: a repeated part adds nothing.
Accumulate_SinglesOnly(V, m, child) ==
    [k \in 0..K |-> IF k >= 1 /\ child[k] # 0 /\ m = 1 THEN V[k] + child[k] ELSE V[k]]

\* The innermost loop: for k in range(1, K+1): if child[k]: V[k] += mult * child[k]
Accumulate(V, m, child) ==
    IF script = "cubic"
    THEN LET mult == IF m > 1 THEN m ELSE 1
         IN  [k \in 0..K |-> IF k >= 1 /\ child[k] # 0 THEN V[k] + mult * child[k] ELSE V[k]]
    ELSE IF m # 1
         THEN [k \in 0..K |-> IF k >= 1 /\ child[k] # 0 THEN V[k] + m * child[k] ELSE V[k]]
         ELSE [k \in 0..K |-> IF k >= 1 /\ child[k] # 0 THEN V[k] + child[k] ELSE V[k]]

\* The frame after the iteration (i, m) has added `child` into V: the next m of
\* range(1, max_m + 1), or the next i of range(min_part, remaining + 1).
Advance(f, child) ==
    LET newV == Accumulate(f.V, f.m, child)
        max_m == f.remaining \div f.i
    IN  IF f.m < max_m
        THEN [f EXCEPT !.m = f.m + 1, !.V = newV]
        ELSE [f EXCEPT !.i = f.i + 1, !.m = 1, !.V = newV]

\* The break one part size too late: if distinct_used > K.
Prune_Late(f) == f.distinct_used > K

\* if distinct_used + 1 > K: break
Prune(f) == f.distinct_used + 1 > K

\* A cache that never answers.
Cached_Never(key) == FALSE

\* lru_cache: is the key present.
Cached(key) == key \in DOMAIN cache

\* The top-level loop of compute_M_up_to_K calls rec(n, 1, 0).
PrecomputeCall ==
    /\ pc = "precompute"
    /\ stack = <<>>
    /\ n <= n_max
    /\ LET key == <<n, 1, 0>>
       IN  /\ lastCall' = [remaining |-> n, min_part |-> 1, distinct_used |-> 0, depth |-> 0]
           /\ IF Cached(key)
              THEN /\ Ms' = Ms @@ (n :> [k \in 1..K |-> cache[key][k]])
                   /\ n' = n + 1
                   /\ hits' = hits + 1
                   /\ lastRet' = cache[key]
                   /\ UNCHANGED <<stack, misses, started>>
              ELSE /\ stack' = <<NewFrame(n, 1, 0)>>
                   /\ misses' = misses + 1
                   /\ started' = started \cup {key}
                   /\ UNCHANGED <<Ms, n, hits, lastRet>>
    /\ UNCHANGED <<script, n_max, pc, cache, failures, evaluated>>
    /\ UNCHANGED unitVars

\* return tuple(V) of the innermost call: the value is stored in the cache and
\* handed to the caller, which adds it into its own V and moves on; the
\* outermost call hands it to the precompute loop, which fills Ms[n].
Return(V) ==
    /\ cache' = (Key(Top) :> V) @@ cache
    /\ lastRet' = V
    /\ IF Len(stack) = 1
       THEN /\ stack' = <<>>
            /\ Ms' = Ms @@ (n :> [k \in 1..K |-> V[k]])
            /\ n' = n + 1
       ELSE /\ stack' = Append(SubSeq(stack, 1, Len(stack) - 2),
                               Advance(stack[Len(stack) - 1], V))
            /\ UNCHANGED <<Ms, n>>
    /\ UNCHANGED <<script, n_max, pc, failures, lastCall, misses, hits, started, evaluated>>
    /\ UNCHANGED unitVars

\* if remaining == 0: ... return tuple(V)
BaseCase ==
    /\ stack # <<>>
    /\ Top.remaining = 0
    /\ Return(BaseV(Top.distinct_used))

\* for i in range(min_part, remaining + 1) is exhausted: return tuple(V)
LoopEnd ==
    /\ stack # <<>>
    /\ Top.remaining # 0
    /\ Top.i > Top.remaining
    /\ Return(Top.V)

\* if distinct_used + 1 > K: break
Break ==
    /\ stack # <<>>
    /\ Top.remaining # 0
    /\ Top.i <= Top.remaining
    /\ Prune(Top)
    /\ Return(Top.V)

\* One iteration of the m loop: child = rec(new_rem, i + 1, distinct_used + 1).
\* A cached child is added into V at once; otherwise the body of rec is entered.
Iterate ==
    /\ stack # <<>>
    /\ Top.remaining # 0
    /\ Top.i <= Top.remaining
    /\ ~Prune(Top)
    /\ LET new_rem == Top.remaining - Top.m * Top.i
           key == <<new_rem, Top.i + 1, Top.distinct_used + 1>>
       IN  /\ lastCall' = [remaining |-> new_rem, min_part |-> Top.i + 1,
                           distinct_used |-> Top.distinct_used + 1, depth |-> Len(stack)]
           /\ IF Cached(key)
              THEN /\ stack' = [stack EXCEPT ![Len(stack)] = Advance(Top, cache[key])]
                   /\ hits' = hits + 1
                   /\ lastRet' = cache[key]
                   /\ UNCHANGED <<misses, started>>
              ELSE /\ stack' = Append(stack, NewFrame(new_rem, Top.i + 1, Top.distinct_used + 1))
                   /\ misses' = misses + 1
                   /\ started' = started \cup {key}
                   /\ UNCHANGED <<hits, lastRet>>
    /\ UNCHANGED <<script, n_max, pc, n, cache, Ms, failures, evaluated>>
    /\ UNCHANGED unitVars

\* compute_M_up_to_K returns Ms; the verification loop starts at n = 2.
PrecomputeDone ==
    /\ pc = "precompute"
    /\ stack = <<>>
    /\ n > n_max
    /\ pc' = "verify"
    /\ n' = 2
    /\ UNCHANGED <<script, n_max, failures, evaluated>>
    /\ UNCHANGED engineVars
    /\ UNCHANGED unitVars

\* ---------------------------------------------------------------- integers
\* Python integers are unbounded and the detector values pass 2^31 (about 2*10^10
\* at n = 30), which TLC's integers cannot hold. A detector value is therefore
\* carried exactly as a pair <<h, l>> standing for h * WBase + l, 0 <= l < WBase.
WBase == 10000

WInt(x) == <<x \div WBase, x % WBase>>

WVal(w) == w[1] * WBase + w[2]

WAdd(a, b) == <<a[1] + b[1] + ((a[2] + b[2]) \div WBase), (a[2] + b[2]) % WBase>>

WSub(a, b) == <<a[1] - b[1] + ((a[2] - b[2]) \div WBase), (a[2] - b[2]) % WBase>>

\* The exact product x * y of two integers.
WMul(x, y) ==
    LET xh == x \div WBase
        xl == x % WBase
        yh == y \div WBase
        yl == y % WBase
    IN  <<xh * yh * WBase + xh * yl + xl * yh + ((xl * yl) \div WBase), (xl * yl) % WBase>>

\* ---------------------------------------------------------------- detectors
\* dict.get(k, default)
Get(d, k, default) == IF k \in DOMAIN d THEN d[k] ELSE default

\* The cubic detector with 6 for the coefficient 5.
binomial_cubic_detector_Coeff(x, Ms_for_n) ==
    IF x < 3 THEN WInt(0)
    ELSE LET m1 == Get(Ms_for_n, 1, 0)
             m2 == Get(Ms_for_n, 2, 0)
             m3 == Get(Ms_for_n, 3, 0)
             binom_part == (x - 1) * (x - 2)
         IN  WSub(WSub(WMul(binom_part, m1 + m2), WMul(6 * (x - 1), m2)), WMul(80, m3))

binomial_cubic_detector(x, Ms_for_n) ==
    IF x < 3 THEN WInt(0)
    ELSE LET m1 == Get(Ms_for_n, 1, 0)
             m2 == Get(Ms_for_n, 2, 0)
             m3 == Get(Ms_for_n, 3, 0)
             binom_part == (x - 1) * (x - 2)
         IN  WSub(WSub(WMul(binom_part, m1 + m2), WMul(5 * (x - 1), m2)), WMul(80, m3))

COEFFS == [M1_n3 |-> -4305, M1_n2 |-> 12915, M1_n1 |-> -8610,
           M2_n3 |-> -2296, M2_n2 |-> 18368,
           M3_n3 |-> -3200, M3_n2 |-> 48640,
           M4_n1 |-> 967680]

\* The quartic detector with n for n**2 in the second term.
quartic_L4_Power(x, Ms_for_n) ==
    LET m1 == Get(Ms_for_n, 1, 0)
        m2 == Get(Ms_for_n, 2, 0)
        m3 == Get(Ms_for_n, 3, 0)
        m4 == Get(Ms_for_n, 4, 0)
        term1 == WMul(COEFFS.M1_n3 * x * x * x + COEFFS.M1_n2 * x * x + COEFFS.M1_n1 * x, m1)
        term2 == WMul(COEFFS.M2_n3 * x * x * x + COEFFS.M2_n2 * x, m2)
        term3 == WMul(COEFFS.M3_n3 * x * x * x + COEFFS.M3_n2 * x * x, m3)
        term4 == WMul(COEFFS.M4_n1 * x, m4)
    IN  WAdd(WAdd(WAdd(term1, term2), term3), term4)

quartic_L4(x, Ms_for_n) ==
    LET m1 == Get(Ms_for_n, 1, 0)
        m2 == Get(Ms_for_n, 2, 0)
        m3 == Get(Ms_for_n, 3, 0)
        m4 == Get(Ms_for_n, 4, 0)
        term1 == WMul(COEFFS.M1_n3 * x * x * x + COEFFS.M1_n2 * x * x + COEFFS.M1_n1 * x, m1)
        term2 == WMul(COEFFS.M2_n3 * x * x * x + COEFFS.M2_n2 * x * x, m2)
        term3 == WMul(COEFFS.M3_n3 * x * x * x + COEFFS.M3_n2 * x * x, m3)
        term4 == WMul(COEFFS.M4_n1 * x, m4)
    IN  WAdd(WAdd(WAdd(term1, term2), term3), term4)

\* The detector each script evaluates.
Detector(s, x, Ms_for_n) ==
    IF s = "cubic" THEN binomial_cubic_detector(x, Ms_for_n) ELSE quartic_L4(x, Ms_for_n)

\* ---------------------------------------------------------------- driver
\* sympy.isprime, the external primality oracle.
isprime(x) == x >= 2 /\ \A d \in 2..(x - 1) : x % d # 0

\* The pass test without its composite half.
Passed_PrimesOnly(s, is_prime, val) == is_prime /\ val = WInt(0)

\* passed / ok of the verification loop.
Passed(s, is_prime, val) ==
    IF s = "cubic"
    THEN IF ~is_prime /\ val # WInt(0) THEN TRUE
         ELSE IF is_prime /\ val = WInt(0) THEN TRUE
         ELSE FALSE
    ELSE (is_prime /\ val = WInt(0)) \/ ((~is_prime) /\ val # WInt(0))

\* What failures.append receives, as the tuple of its components: the number n
\* alone in the cubic script, (n, is_prime, val) in the quartic one.
FailureEntry(s, x, is_prime, val) == IF s = "cubic" THEN <<x>> ELSE <<x, is_prime, val>>

\* The body of the verification loop for the current n.
Check(is_prime, val) ==
    /\ evaluated' = Append(evaluated, <<n, is_prime, val>>)
    /\ failures' = IF ~Passed(script, is_prime, val)
                   THEN Append(failures, FailureEntry(script, n, is_prime, val))
                   ELSE failures
    /\ n' = n + 1
    /\ UNCHANGED <<script, n_max, pc>>
    /\ UNCHANGED engineVars
    /\ UNCHANGED unitVars

\* for n in range(2, N_MAX + 1): one iteration.
VerifyStep ==
    /\ pc = "verify"
    /\ n <= n_max
    /\ Check(isprime(n), Detector(script, n, Ms[n]))

\* The verification loop is exhausted: the summary is printed / failures returned.
VerifyDone ==
    /\ pc = "verify"
    /\ n > n_max
    /\ pc' = "done"
    /\ UNCHANGED <<script, n_max, n, failures, evaluated>>
    /\ UNCHANGED engineVars
    /\ UNCHANGED unitVars

\* ---------------------------------------------------------------- engine, as a function
\* rec as the function of its arguments that the memoized recursion computes.
\* The two loops of a call add, for every part value i and multiplicity m, the
\* child's vector times m into V; V starts at zero, so the value returned is the
\* sum of these terms. The ranges are summed by halves, which keeps the
\* evaluation shallow; integer addition makes the order immaterial.
VAdd(a, b) == [k \in 0..K |-> a[k] + b[k]]

RECURSIVE rec(_, _, _), SumOverM(_, _, _, _), SumOverI(_, _, _)

\* for m in range(lo, hi + 1): child = rec(new_rem, i + 1, distinct_used + 1); V[k] += ...
SumOverM(f, i, lo, hi) ==
    IF lo > hi THEN ZeroV
    ELSE IF lo = hi
         THEN Accumulate(ZeroV, lo, rec(f.remaining - lo * i, i + 1, f.distinct_used + 1))
         ELSE LET mid == (lo + hi) \div 2
              IN  VAdd(SumOverM(f, i, lo, mid), SumOverM(f, i, mid + 1, hi))

\* for i in range(lo, hi + 1): max_m = remaining // i; for m in range(1, max_m + 1): ...
SumOverI(f, lo, hi) ==
    IF lo > hi THEN ZeroV
    ELSE IF lo = hi
         THEN SumOverM(f, lo, 1, f.remaining \div lo)
         ELSE LET mid == (lo + hi) \div 2
              IN  VAdd(SumOverI(f, lo, mid), SumOverI(f, mid + 1, hi))

rec(remaining, min_part, distinct_used) ==
    LET f == NewFrame(remaining, min_part, distinct_used)
    IN  IF remaining = 0 THEN BaseV(distinct_used)
        ELSE IF Prune(f) THEN f.V
        ELSE SumOverI(f, min_part, remaining)

\* compute_M_up_to_3 / compute_M_up_to_4: Ms[n] = {k: V[k]} for n in range(0, n_max + 1)
compute_M_up_to(nmax) ==
    [x \in 0..nmax |-> LET V == rec(x, 1, 0) IN [k \in 1..K |-> V[k]]]

\* Ms = compute_M_up_to_K(N_MAX), taken as one step of the pipeline.
PrecomputeAll ==
    /\ pc = "start"
    /\ Ms' = compute_M_up_to(n_max)
    /\ pc' = "verify"
    /\ n' = 2
    /\ UNCHANGED <<script, n_max, failures, evaluated>>
    /\ UNCHANGED <<stack, cache, lastCall, misses, hits, started, lastRet>>
    /\ UNCHANGED unitVars

\* ---------------------------------------------------------------- detector unit
\* One call of a script's detector on the arguments (arg_n, arg_Ms).
Evaluate ==
    /\ pc = "eval"
    /\ result' = Detector(script, arg_n, arg_Ms)
    /\ pc' = "evaluated"
    /\ UNCHANGED <<script, n_max, n, failures, evaluated, arg_n, arg_Ms>>
    /\ UNCHANGED engineVars

\* The verification loop body on an arbitrary oracle answer and detector value.
DriverStep ==
    /\ pc = "verify"
    /\ n <= n_max
    /\ \E is_prime \in BOOLEAN, v \in {-1, 0, 1} : Check(is_prime, WInt(v))

\* ---------------------------------------------------------------- specifications
Scripts == {"cubic", "quartic"}

\* The parts of the state a specification does not use.
EngineIdle ==
    /\ stack = <<>>
    /\ cache = <<>>
    /\ lastCall = [remaining |-> 0, min_part |-> 1, distinct_used |-> 0, depth |-> 0]
    /\ misses = 0
    /\ hits = 0
    /\ started = {}
    /\ lastRet = <<>>

DriverIdle ==
    /\ failures = <<>>
    /\ evaluated = <<>>

UnitIdle ==
    /\ arg_n = 0
    /\ arg_Ms = <<>>
    /\ result = WInt(0)

\* A whole run of either script, rec taken call by call.
Init ==
    /\ \/ script = "cubic" /\ n_max = NMaxCubic
       \/ script = "quartic" /\ n_max = NMaxQuartic
    /\ pc = "precompute"
    /\ n = 0
    /\ Ms = <<>>
    /\ EngineIdle
    /\ DriverIdle
    /\ UnitIdle

Next ==
    \/ PrecomputeCall
    \/ BaseCase
    \/ LoopEnd
    \/ Break
    \/ Iterate
    \/ PrecomputeDone
    \/ VerifyStep
    \/ VerifyDone

Spec == Init /\ [][Next]_vars

\* The interpreter runs the single thread of the script until it ends.
FairSpec == Spec /\ WF_vars(Next)

\* A whole run of either script for any N_MAX up to NMaxPipe, the table computed
\* in one step.
InitPipe ==
    /\ script \in Scripts
    /\ n_max \in 1..NMaxPipe
    /\ pc = "start"
    /\ n = 0
    /\ Ms = <<>>
    /\ EngineIdle
    /\ DriverIdle
    /\ UnitIdle

NextPipe ==
    \/ PrecomputeAll
    \/ VerifyStep
    \/ VerifyDone

SpecPipe == InitPipe /\ [][NextPipe]_vars

\* The verification loop alone, on arbitrary oracle answers and detector values.
InitDriver ==
    /\ script \in Scripts
    /\ n_max \in 1..NMaxDriver
    /\ pc = "verify"
    /\ n = 2
    /\ Ms = <<>>
    /\ EngineIdle
    /\ DriverIdle
    /\ UnitIdle

NextDriver ==
    \/ DriverStep
    \/ VerifyDone

SpecDriver == InitDriver /\ [][NextDriver]_vars

\* dicts with keys among 1..K (any of them may be absent) and values 0..MaxArgM
Dicts(s) == UNION {[D -> 0..MaxArgM] : D \in SUBSET (1..KOf(s))}

\* A detector called once on arguments drawn from bounded sets.
InitUnit ==
    /\ script \in Scripts
    /\ arg_n \in 0..MaxArgN
    /\ arg_Ms \in Dicts(script)
    /\ result = WInt(0)
    /\ pc = "eval"
    /\ n_max = 0
    /\ n = 0
    /\ Ms = <<>>
    /\ EngineIdle
    /\ DriverIdle

NextUnit ==
    \/ Evaluate

SpecUnit == InitUnit /\ [][NextUnit]_vars

\* ================================================================ properties
\* ---------------------------------------------------------------- brute force
\* Every partition of `total` with parts <= largest, as a non-increasing sequence.
RECURSIVE PartitionsOf(_, _)
PartitionsOf(total, largest) ==
    IF total = 0
    THEN {<<>>}
    ELSE UNION {{<<p>> \o t : t \in PartitionsOf(total - p, p)} :
                p \in 1..(IF total < largest THEN total ELSE largest)}

PartSizes(t) == {t[j] : j \in DOMAIN t}

Multiplicity(t, v) == Cardinality({j \in DOMAIN t : t[j] = v})

RECURSIVE ProductOfMultiplicities(_, _)
ProductOfMultiplicities(t, S) ==
    IF S = {}
    THEN 1
    ELSE LET v == CHOOSE v \in S : TRUE
         IN  Multiplicity(t, v) * ProductOfMultiplicities(t, S \ {v})

\* M_k(x) by enumeration: the number of pairs (partition with exactly k part
\* sizes, j) with 1 <= j <= the product of its multiplicities.
BruteM(x, k) ==
    Cardinality(UNION {{<<t, j>> : j \in 1..ProductOfMultiplicities(t, PartSizes(t))} :
                       t \in {u \in PartitionsOf(x, x) : Cardinality(PartSizes(u)) = k}})

MaxTable == IF NMaxCubic < NMaxQuartic THEN NMaxQuartic ELSE NMaxCubic

BruteTable == [x \in 0..MaxTable |-> [k \in 1..4 |-> BruteM(x, k)]]

\* p(x), the number of partitions of x
PartitionCount == [x \in 0..MaxTable |-> Cardinality(PartitionsOf(x, x))]

\* the number of partitions of x with 1..k distinct part sizes
PartitionCountUpTo ==
    [x \in 0..MaxTable |->
        [k \in 1..4 |-> Cardinality({u \in PartitionsOf(x, x) :
                                     /\ 1 <= Cardinality(PartSizes(u))
                                     /\ Cardinality(PartSizes(u)) <= k})]]

RECURSIVE SumM(_, _)
SumM(row, k) == IF k = 0 THEN 0 ELSE row[k] + SumM(row, k - 1)

\* C1: every entry Ms[x][k] of the table the engine builds (K = 3 and K = 4)
\* equals the sum, over the partitions of x with exactly k distinct part sizes,
\* of the product of the multiplicities, as found by enumerating all partitions.
C1_MatchesBruteForce ==
    /\ DOMAIN Ms \subseteq 0..n_max
    /\ \A x \in DOMAIN Ms :
        /\ DOMAIN Ms[x] = 1..K
        /\ \A k \in 1..K : Ms[x][k] = BruteTable[x][k]
    /\ pc \in {"verify", "done"} => DOMAIN Ms = 0..n_max

C1_Witness ==
    /\ script = "cubic"
    /\ pc = "verify"
    /\ Ms[4][1] = 7
    /\ Ms[n_max][3] > 0

\* C7 as stated: M_1(x) + ... + M_K(x) never exceeds p(x).
C7_SumAtMostPartitionCount ==
    \A x \in DOMAIN Ms : SumM(Ms[x], K) <= PartitionCount[x]

\* C7 amended: M_1(x) + ... + M_K(x) is at least the number of partitions of x
\* that use between 1 and K distinct part sizes (each of them counts with its
\* product of multiplicities, which is >= 1).
C7_SumAtLeastPartitionCount ==
    \A x \in DOMAIN Ms : SumM(Ms[x], K) >= PartitionCountUpTo[x][K]

C7_Witness ==
    /\ script = "cubic"
    /\ 7 \in DOMAIN Ms
    /\ SumM(Ms[2], K) = 3
    /\ PartitionCount[2] = 2
    /\ SumM(Ms[7], K) > PartitionCountUpTo[7][K]

\* The largest j with j(j+1)/2 <= x: the most distinct part sizes a partition
\* of x can have.
MaxDistinct(x) == CHOOSE j \in 0..x : j * (j + 1) <= 2 * x /\ (j + 1) * (j + 2) > 2 * x

\* C8: M_k(0) = 0 for every k in 1..K; M_k(x) = 0 for every k larger than the
\* largest number of distinct part sizes a partition of x can have; no entry
\* is negative.
C8_ZeroAboveMaxDistinct ==
    \A x \in DOMAIN Ms : \A k \in 1..K :
        /\ x = 0 => Ms[x][k] = 0
        /\ k > MaxDistinct(x) => Ms[x][k] = 0
        /\ Ms[x][k] >= 0

C8_Witness ==
    /\ script = "quartic"
    /\ 10 \in DOMAIN Ms
    /\ \A k \in 1..4 : Ms[0][k] = 0
    /\ Ms[9][4] = 0
    /\ Ms[10][4] > 0
    /\ Ms[5][3] = 0
    /\ Ms[6][3] > 0

LastKey == <<lastCall.remaining, lastCall.min_part, lastCall.distinct_used>>

\* The two renderings of rec agree: whatever a call returns, and whatever the
\* cache holds for the latest call, is the value of rec as a function.
EngineAgrees ==
    /\ lastRet # <<>> /\ LastKey \in DOMAIN cache => cache[LastKey] = rec(LastKey[1], LastKey[2], LastKey[3])
    /\ \A x \in DOMAIN Ms : Ms[x] = [k \in 1..K |-> rec(x, 1, 0)[k]]

\* ---------------------------------------------------------------- recursion
CallInRange(c) ==
    /\ 0 <= c.remaining /\ c.remaining <= n_max
    /\ 1 <= c.min_part /\ c.min_part <= n_max + 1
    /\ 0 <= c.distinct_used /\ c.distinct_used <= K

C9_KeySpace ==
    /\ CallInRange(lastCall)
    /\ lastCall.depth <= K
    /\ lastCall.depth = lastCall.distinct_used
    /\ Len(stack) <= K + 1
    /\ \A d \in DOMAIN stack : CallInRange(stack[d]) /\ stack[d].distinct_used = d - 1

\* a step taken while the innermost call has distinct_used = K and remaining > 0
\* makes no call: it returns
C9_NoCallAtK ==
    (stack # <<>> /\ Top.distinct_used = K /\ Top.remaining > 0)
        => (hits' = hits /\ misses' = misses /\ lastCall' = lastCall /\ Len(stack') = Len(stack) - 1)

\* C9: every call rec(remaining, min_part, distinct_used) ever made has
\* 0 <= remaining <= N_MAX, 1 <= min_part <= N_MAX + 1, 0 <= distinct_used <= K;
\* a call with distinct_used = K and remaining > 0 makes no further call, so
\* the calls nested under a top-level rec(n, 1, 0) are never deeper than K; and
\* every top-level call terminates.
C9_BoundedRecursion ==
    /\ []C9_KeySpace
    /\ [][C9_NoCallAtK]_vars
    /\ (stack # <<>>) ~> (stack = <<>>)

C9_Witness ==
    /\ stack # <<>>
    /\ Len(stack) = K + 1
    /\ Top.distinct_used = K
    /\ Top.remaining > 0
    /\ Top.i <= Top.remaining

\* ---------------------------------------------------------------- cache
\* the body of rec is entered only for a triple it was never entered for
C10_BodyOnce == (misses' # misses) => (LastKey' \notin started /\ LastKey' \notin DOMAIN cache)

\* a stored vector is neither changed nor removed
C10_Kept == \A key \in DOMAIN cache : key \in DOMAIN cache' /\ cache'[key] = cache[key]

\* a call for a stored triple returns the stored vector
C10_HitReturnsStored ==
    (hits' # hits) => (LastKey' \in DOMAIN cache /\ lastRet' = cache[LastKey'])

\* C10: over a whole run of compute_M_up_to_K the cache is write-once: the body
\* of rec runs at most once per triple (remaining, min_part, distinct_used),
\* the vector stored for a triple is never changed or removed, and every later
\* call with that triple returns the stored vector.
C10_WriteOnce == [][C10_BodyOnce /\ C10_Kept /\ C10_HitReturnsStored]_vars

C10_Witness ==
    /\ hits > 0
    /\ misses > 1
    /\ misses = Cardinality(started)
    /\ lastRet = cache[LastKey]
    /\ stack # <<>>
    /\ lastCall.depth > 0
    /\ LastKey \notin {Key(stack[d]) : d \in DOMAIN stack}

\* ---------------------------------------------------------------- pipelines
Primes == {2, 3, 5, 7, 11, 13, 17, 19, 23, 29, 31}

\* the triples seen so far are those of n = 2, 3, ... in order, and each value
\* is 0 exactly when n is prime
ScanAgrees ==
    \A j \in DOMAIN evaluated :
        /\ evaluated[j][1] = j + 1
        /\ evaluated[j][2] = (j + 1 \in Primes)
        /\ (evaluated[j][3] = <<0, 0>>) = (j + 1 \in Primes)

ValueAt(x) == evaluated[x - 1][3]

\* C2: the cubic pipeline with N_MAX = 10 ends with an empty failures list: for
\* every n in 2..10 the detector value is 0 exactly when n is prime; the value
\* at 7 is 0, the value at 8 is not, and 2, 3 and 4 pass.
C2_CubicScanClean ==
    script = "cubic" =>
        /\ failures = <<>>
        /\ ScanAgrees
        /\ pc = "done" =>
            /\ Len(evaluated) = n_max - 1
            /\ ValueAt(7) = <<0, 0>>
            /\ ValueAt(8) # <<0, 0>>
            /\ ValueAt(2) = <<0, 0>> /\ ValueAt(3) = <<0, 0>> /\ ValueAt(4) # <<0, 0>>

C2_Witness ==
    /\ script = "cubic"
    /\ pc = "done"
    /\ n_max = 10
    /\ Len(evaluated) = 9
    /\ WVal(ValueAt(8)) = 225
    /\ failures = <<>>

\* C3: verify_range(30) of the quartic pipeline returns an empty failures list:
\* for each of the 29 values n in 2..30 the value L4(n) is 0 exactly when n is
\* prime, 2, 3 and 4 included.
C3_QuarticScanClean ==
    script = "quartic" =>
        /\ failures = <<>>
        /\ ScanAgrees
        /\ pc = "done" => Len(evaluated) = n_max - 1
        /\ (pc = "done" /\ n_max >= 4) =>
              ValueAt(2) = <<0, 0>> /\ ValueAt(3) = <<0, 0>> /\ ValueAt(4) # <<0, 0>>

C3_Witness ==
    /\ script = "quartic"
    /\ pc = "done"
    /\ n_max = 30
    /\ Len(evaluated) = 29
    /\ failures = <<>>
    /\ WVal(ValueAt(4)) = -282408
    /\ \E j \in DOMAIN evaluated : evaluated[j][3][1] > 214748 \/ evaluated[j][3][1] < -214749

\* ---------------------------------------------------------------- driver
ScanPasses(e) == (e[2] /\ e[3] = <<0, 0>>) \/ (~e[2] /\ e[3] # <<0, 0>>)

ScanFails(e) == ~ScanPasses(e)

\* every n from 2 on has been evaluated once, in increasing order, and the scan
\* ends only after N_MAX
ScanComplete ==
    /\ Len(evaluated) = n - 2
    /\ \A j \in DOMAIN evaluated : evaluated[j][1] = j + 1
    /\ n <= n_max + 1 \/ n = 2
    /\ pc = "done" => n > n_max

\* C4 as stated: in both drivers every n of 2..N_MAX is evaluated once in
\* increasing order whatever fails, and failures holds, in increasing n, the
\* triple (n, is_prime, value) of exactly the n that did not pass.
C4_FailuresAreTriples ==
    /\ ScanComplete
    /\ failures = SelectSeq(evaluated, ScanFails)

\* C4 amended: as stated for the quartic driver; the cubic driver records the
\* number n alone for each n that did not pass.
C4_FailuresRecorded ==
    /\ ScanComplete
    /\ LET failing == SelectSeq(evaluated, ScanFails)
       IN  IF script = "quartic"
           THEN failures = failing
           ELSE failures = [j \in 1..Len(failing) |-> <<failing[j][1]>>]

C4_Witness ==
    /\ pc = "done"
    /\ n_max = NMaxDriver
    /\ Len(evaluated) = NMaxDriver - 1
    /\ Len(failures) = 2
    /\ ScanFails(evaluated[1])
    /\ ScanPasses(evaluated[2])
    /\ ScanFails(evaluated[3])
    /\ evaluated[1][2] /\ ~evaluated[3][2]

\* ---------------------------------------------------------------- detectors
OrZero(d, k) == IF k \in DOMAIN d THEN d[k] ELSE 0

Normal(w) == DOMAIN w = 1..2 /\ 0 <= w[2] /\ w[2] < WBase

CubicFormula(x, d) ==
    (x - 1) * (x - 2) * (OrZero(d, 1) + OrZero(d, 2)) - 5 * (x - 1) * OrZero(d, 2)
        - 80 * OrZero(d, 3)

\* C5 as stated: for every n >= 0 and non-negative M1, M2, M3 (a missing one
\* counted as 0) binomial_cubic_detector returns
\* (n-1)(n-2)(M1+M2) - 5(n-1)M2 - 80 M3.
C5_CubicFormulaEverywhere ==
    (pc = "evaluated" /\ script = "cubic") => WVal(result) = CubicFormula(arg_n, arg_Ms)

\* C5 amended: binomial_cubic_detector returns that value for every n >= 3,
\* and 0 for n < 3, whatever M1, M2, M3 are.
C5_CubicFormulaFromThree ==
    (pc = "evaluated" /\ script = "cubic") =>
        /\ Normal(result)
        /\ arg_n >= 3 => WVal(result) = CubicFormula(arg_n, arg_Ms)
        /\ arg_n < 3 => WVal(result) = 0

C5_Witness ==
    /\ pc = "evaluated"
    /\ script = "cubic"
    /\ arg_n = 4
    /\ DOMAIN arg_Ms = {2, 3}
    /\ arg_Ms[2] = 1 /\ arg_Ms[3] = 2
    /\ WVal(result) = -169

Cube(x) == x * x * x

QuarticFormula(x, d) ==
    (12915 * x * x - 4305 * Cube(x) - 8610 * x) * OrZero(d, 1)
        + (18368 * x * x - 2296 * Cube(x)) * OrZero(d, 2)
        + (48640 * x * x - 3200 * Cube(x)) * OrZero(d, 3)
        + 967680 * x * OrZero(d, 4)

Without(d, k) == [j \in DOMAIN d \ {k} |-> d[j]]

\* C6: for every n >= 0 and every mapping, quartic_L4 returns
\* (-4305n^3 + 12915n^2 - 8610n) M1 + (-2296n^3 + 18368n^2) M2
\* + (-3200n^3 + 48640n^2) M3 + 967680n M4, an absent key counting as 0, so
\* that removing a key whose value is 0 does not change the result.
C6_QuarticFormula ==
    (pc = "evaluated" /\ script = "quartic") =>
        /\ Normal(result)
        /\ WVal(result) = QuarticFormula(arg_n, arg_Ms)
        /\ \A k \in DOMAIN arg_Ms :
              arg_Ms[k] = 0 => quartic_L4(arg_n, Without(arg_Ms, k)) = result

C6_Witness ==
    /\ pc = "evaluated"
    /\ script = "quartic"
    /\ arg_n = 3
    /\ DOMAIN arg_Ms = {1, 2, 4}
    /\ arg_Ms[1] = 1 /\ arg_Ms[2] = 0 /\ arg_Ms[4] = 2
    /\ WVal(result) = 5780250
====
